---- MODULE Spec2Model ----
(***************************************************************************)
(* A model of iGo (src/igo.py, src/bot.py): the expansion of a road graph  *)
(* into an igraph of inodes, the congestion overlay and the path search.   *)
(*                                                                         *)
(* Numbers.  Python floats are modelled in fixed point: an itime is an     *)
(* integer number of milliseconds, a factor an integer number of           *)
(* thousandths, a bearing an integer number of degrees.  float("inf") is   *)
(* the value Inf, which absorbs sums and products.  A maxspeed and a mean  *)
(* are exact rationals <<numerator, denominator>>.                         *)
(*                                                                         *)
(* Identifiers.  The inode ID "I_3_7" is the triple <<"I", 3, 7>>; the     *)
(* IDs "S_3" and "D_3" are <<"S", 3, 0>> and <<"D", 3, 0>> (0 is no node). *)
(*                                                                         *)
(* Objects.  A networkx graph is a mutable object: heap maps an object     *)
(* reference to the value of the graph it holds, so that a function that   *)
(* writes through a reference it was passed changes the caller's graph.    *)
(***************************************************************************)
EXTENDS Integers, Sequences, FiniteSets, TLC

\* ------------------------------------------------------------- bounds
\* Largest number of nodes of one highway path.
MaxPathLen == 4
\* Largest number of edges a walk over the igraph is followed for.
MaxWalk == 7

\* The last minute of the clock.
MaxTime == 10
\* The oldest the congestions downloaded can be, in minutes.
MaxLag == 2
\* The last minute of the clock of two bots that run at once.
MaxRace == 5

\* ---------------------------------------------------------- constants
\* The age, in minutes, from which the dynamic igraph is built again.
FreshMinutes == 5
\* float("inf"): larger than any finite itime of the model.
Inf == 1000000000
\* The maximum speed assumed for an edge without 'maxspeed', in km/h.
DefaultMaxspeed == 30
\* The congestion state of a closed road.
Closed == 6
\* The angle, in degrees, where bearing_itime changes its formula.
TurnFrontier == 50
\* The divisor of the angle in both formulas of bearing_itime.
TurnScale == 45
\* A left turn of more than this many degrees is slower.
LeftThreshold == 15
\* The degrees of half a turn and of a whole turn.
HalfTurn == 180
FullTurn == 360

\* ------------------------------------------------------------ numbers
\* Thousandths per unit (milliseconds per second).
Milli == 1000
\* The inner scale of the series below.
Fine == 100000
\* The number of terms of the series below.
Terms == 24
\* ln(2) at the scale Fine.
Ln2Fine == 69315

Abs(a) == IF a < 0 THEN -a ELSE a

RECURSIVE Gcd(_, _)
Gcd(a, b) == IF b = 0 THEN a ELSE Gcd(b, a % b)

\* The rational n/d in lowest terms.
Rat(n, d) ==
    LET g == Gcd(n, d) IN IF g = 0 THEN <<n, d>> ELSE <<n \div g, d \div g>>

RatMul(p, q) == Rat(p[1] * q[1], p[2] * q[2])

\* The nearest integer to n/d, for n >= 0 and d > 0.
Round(n, d) == (2 * n + d) \div (2 * d)

RECURSIVE ExpSeries(_, _, _, _, _)
ExpSeries(n, d, k, term, acc) ==
    IF k > Terms \/ term = 0 THEN acc
    ELSE LET next == (term * n) \div (d * k)
         IN ExpSeries(n, d, k + 1, next, acc + next)

\* math.exp(n/d) in thousandths, for 0 <= n/d.
ExpMilli(n, d) ==
    LET r == Rat(n, d)
    IN Round(ExpSeries(r[1], r[2], 1, Fine, Fine), Fine \div Milli)

RECURSIVE Pow2Below(_, _)
Pow2Below(y, p) == IF 2 * p > y THEN p ELSE Pow2Below(y, 2 * p)

RECURSIVE Log2Of(_)
Log2Of(p) == IF p <= 1 THEN 0 ELSE 1 + Log2Of(p \div 2)

RECURSIVE AtanhSeries(_, _, _, _, _)
AtanhSeries(t2, k, pow, acc, left) ==
    IF left = 0 \/ pow = 0 THEN acc
    ELSE LET next == (pow * t2) \div Fine
         IN AtanhSeries(t2, k + 2, next, acc + (next \div (k + 2)), left - 1)

\* math.log(y) in thousandths, for an integer y >= 1:
\* y = 2^k * m with 1 <= m < 2, and ln m = 2 atanh((m - 1) / (m + 1)).
LnMilli(y) ==
    LET p == Pow2Below(y, 1)
        t == (Fine * (y - p)) \div (y + p)
        t2 == (t * t) \div Fine
        s == AtanhSeries(t2, 1, t, t, Terms)
    IN Round(Log2Of(p) * Ln2Fine + 2 * s, Fine \div Milli)

\* a * f for an itime a (ms) and a factor f (thousandths); inf * f = inf.
TimesFactor(a, f) == IF a = Inf THEN Inf ELSE Round(a * f, Milli)

\* a + b on itimes; inf + b = a + inf = inf.
Plus(a, b) == IF a = Inf \/ b = Inf THEN Inf ELSE a + b

\* ------------------------------------------------------- collections
RECURSIVE SortedSeq(_)
\* The elements of a finite set of integers in ascending order.
SortedSeq(S) ==
    IF S = {} THEN <<>>
    ELSE LET m == CHOOSE x \in S : \A y \in S : x <= y
         IN <<m>> \o SortedSeq(S \ {m})

RECURSIVE Flatten(_)
Flatten(ss) == IF ss = <<>> THEN <<>> ELSE Head(ss) \o Flatten(Tail(ss))

Range(s) == {s[i] : i \in 1..Len(s)}

RECURSIVE SumSeq(_)
SumSeq(s) == IF s = <<>> THEN 0 ELSE Head(s) + SumSeq(Tail(s))

\* ---------------------------------------------------------- the graph
\* The node IDs of the road graphs of the model (OSM node IDs).
Nodes == {1, 2, 3}

\* The way IDs of the highways of the model.
WayIds == {1, 2}

NoNode == 0

\* Coordinates(longitude, latitude).  Every point of the model lies on one
\* meridian, where the haversine distance is the difference of latitudes.
Coordinates(lng, lat) == [longitude |-> lng, latitude |-> lat]

Meridian == 2

\* The stored position of a node of the road graph.
NodeX(n) == Meridian
NodeY(n) == 40 + 2 * n

\* The 'length' of the street u -> v, in meters.
LengthOf(u, v) == 100 * Abs(u - v) + 10 * u

\* The 'bearing' of the street u -> v, in degrees clockwise from north.
BearingOf(u, v) == (u * 70 + v * 115) % 360

\* The raw 'maxspeed' of the street u -> v as OSM gives it: absent, one
\* value or a list of values (km/h).
HasMaxspeed(u, v) == (u + v) % 3 # 0
RawMaxspeed(u, v) ==
    IF (u + 2 * v) % 2 = 0 THEN [list |-> FALSE, v |-> <<50, 1>>]
    ELSE [list |-> TRUE, v |-> << <<30, 1>>, <<50, 1>> >>]

\* The attribute dictionary of the edge u -> v of a downloaded graph.
RawEdgeData(u, v) ==
    IF HasMaxspeed(u, v)
    THEN [length |-> LengthOf(u, v), bearing |-> BearingOf(u, v),
          maxspeed |-> RawMaxspeed(u, v)]
    ELSE [length |-> LengthOf(u, v), bearing |-> BearingOf(u, v)]

\* A directed graph: its nodes in iteration order, their data, its edges.
Graph(E) ==
    LET ns == {e[1] : e \in E} \cup {e[2] : e \in E}
    IN [nodes |-> SortedSeq(ns),
        node |-> [n \in ns |-> [x |-> NodeX(n), y |-> NodeY(n)]],
        edge |-> [e \in E |-> RawEdgeData(e[1], e[2])]]

Predecessors(graph, node) ==
    SortedSeq({p \in Range(graph.nodes) : <<p, node>> \in DOMAIN graph.edge})

Successors(graph, node) ==
    SortedSeq({s \in Range(graph.nodes) : <<node, s>> \in DOMAIN graph.edge})

RECURSIVE ReachFrom(_, _)
ReachFrom(E, R) ==
    LET R2 == R \cup {e[2] : e \in {f \in E : f[1] \in R}}
    IN IF R2 = R THEN R ELSE ReachFrom(E, R2)

StronglyConnected(E) ==
    LET ns == {e[1] : e \in E} \cup {e[2] : e \in E}
    IN \A n \in ns : ReachFrom(E, {n}) = ns

\* What build_default_graph returns: directed, without self-loops or
\* parallel edges, one strongly connected component.
DefaultGraphs ==
    {Graph(E) : E \in {F \in SUBSET {e \in Nodes \X Nodes : e[1] # e[2]} :
                         F # {} /\ StronglyConnected(F)}}

\* A directed graph with the given nodes, in iteration order, and edges.
Digraph(order, E) ==
    [nodes |-> order,
     node |-> [n \in Range(order) |-> [x |-> NodeX(n), y |-> NodeY(n)]],
     edge |-> [e \in E |-> RawEdgeData(e[1], e[2])]]

\* Mutant: the component of a node is every node that can be reached from it.
ReachableOf(G, n) == ReachFrom(DOMAIN G.edge, {n})

\* The strongly connected component of the node n of G.
ComponentOf(G, n) ==
    {m \in Range(G.nodes) : /\ m \in ReachFrom(DOMAIN G.edge, {n})
                            /\ n \in ReachFrom(DOMAIN G.edge, {m})}

\* networkx.strongly_connected_components(graph), as a set of sets of nodes.
strongly_connected_components(G) == {ComponentOf(G, n) : n \in Range(G.nodes)}

\* The components max(..., key=len) may return: one of greatest size (which
\* of several depends on the order the library yields them in).
Largest(components) ==
    {c \in components : \A d \in components : Cardinality(d) <= Cardinality(c)}

\* SelectSeq with a filter on set membership: the nodes of s that are in S.
RECURSIVE Restrict(_, _)
Restrict(s, S) ==
    IF s = <<>> THEN <<>>
    ELSE IF Head(s) \in S THEN <<Head(s)>> \o Restrict(Tail(s), S)
    ELSE Restrict(Tail(s), S)

\* graph.subgraph(nodes).copy(): the nodes in the order of the graph, and
\* the edges between them, with their data.
subgraph(G, ns) ==
    [nodes |-> Restrict(G.nodes, ns),
     node |-> [n \in ns \cap Range(G.nodes) |-> G.node[n]],
     edge |-> [e \in {f \in DOMAIN G.edge : f[1] \in ns /\ f[2] \in ns} |-> G.edge[e]]]

\* The last statement of build_default_graph on the downloaded digraph G,
\* where the component chosen is c.
build_default_graph(G, c) == subgraph(G, c)

\* -------------------------------------------------------- static itime
RatAdd(p, q) == Rat(p[1] * q[2] + q[1] * p[2], p[2] * q[2])

RECURSIVE RatSum(_)
RatSum(s) == IF s = <<>> THEN <<0, 1>> ELSE RatAdd(Head(s), RatSum(Tail(s)))

\* statistics.mean of a non-empty list of numbers.
Mean(s) == RatMul(RatSum(s), <<1, Len(s)>>)

\* length / maxspeed, in milliseconds (length in meters, maxspeed in m/s).
ItimeOf(length, maxspeed) == Round(length * Milli * maxspeed[2], maxspeed[1])

\* Mutant: the maximum speed is left in km/h (no conversion to m/s).
DefaultItimeDataKmh(edge_data) ==
    LET kmh == IF "maxspeed" \in DOMAIN edge_data
               THEN IF ~edge_data.maxspeed.list THEN edge_data.maxspeed.v
                    ELSE Mean(edge_data.maxspeed.v)
               ELSE <<DefaultMaxspeed, 1>>
    IN [length |-> edge_data.length, bearing |-> edge_data.bearing,
        maxspeed |-> [list |-> FALSE, v |-> kmh],
        itime |-> ItimeOf(edge_data.length, kmh)]

\* One iteration of the loop of set_default_itime: the new edge data.
DefaultItimeData(edge_data) ==
    LET kmh == IF "maxspeed" \in DOMAIN edge_data
               THEN IF ~edge_data.maxspeed.list THEN edge_data.maxspeed.v
                    ELSE Mean(edge_data.maxspeed.v)
               ELSE <<DefaultMaxspeed, 1>>
        ms == RatMul(kmh, <<1000, 3600>>)
    IN [length |-> edge_data.length, bearing |-> edge_data.bearing,
        maxspeed |-> [list |-> FALSE, v |-> ms],
        itime |-> ItimeOf(edge_data.length, ms)]

set_default_itime(graph) ==
    [graph EXCEPT !.edge = [e \in DOMAIN graph.edge |-> DefaultItimeData(graph.edge[e])]]

\* --------------------------------------------------------- the igraph
In(node, predecessor) == <<"I", node, predecessor>>
Out(node, successor) == <<"O", node, successor>>
Source(node) == <<"S", node, NoNode>>
Destination(node) == <<"D", node, NoNode>>

Kind(inode) == inode[1]

\* The angle between two edges, normalized as bearing_itime does.
NormalizedBearing(bearing) ==
    IF bearing < -HalfTurn THEN bearing + FullTurn
    ELSE IF bearing > HalfTurn THEN bearing - FullTurn ELSE bearing

\* Mutant: a turn of more than 15 degrees to either side is slower.
SideFactorBothSides(bearing) == IF Abs(bearing) > LeftThreshold THEN 1500 ELSE 1000

\* The side factor of a normalized angle, in thousandths.
SideFactor(bearing) == IF bearing < -LeftThreshold THEN 1500 ELSE 1000

\* The cost of the absolute value of the angle, in milliseconds.
BearingCost(angle) ==
    IF angle < TurnFrontier
    THEN ExpMilli(angle, TurnScale) - Milli
    ELSE LnMilli((angle - TurnScale) * (angle - TurnScale))

bearing_itime(igraph, predecessor, node, successor) ==
    LET bearing == NormalizedBearing(igraph.edge[<<node, successor>>].bearing
                                     - igraph.edge[<<predecessor, node>>].bearing)
    IN TimesFactor(BearingCost(Abs(bearing)), SideFactor(bearing))

\* The In and Out inodes of a node, in the order they are added.
InNodes(graph, node) ==
    LET ps == Predecessors(graph, node)
    IN [i \in 1..Len(ps) |-> In(node, ps[i])]

OutNodes(graph, node) ==
    LET ss == Successors(graph, node)
    IN [i \in 1..Len(ss) |-> Out(node, ss[i])]

\* Mutant: no bearing edge for a U-turn (back to the predecessor).
BearingEdgesNoUTurn(graph, node) ==
    {<<<<p[1], p[2]>>, [itime |-> bearing_itime(graph, p[1][3], node, p[2][3])]>> :
        p \in {q \in Range(InNodes(graph, node)) \X Range(OutNodes(graph, node)) :
                 q[1][3] # q[2][3]}}

\* Bearing edges (In -> Out) of a node, with the itime of the turn.
BearingEdges(graph, node) ==
    {<<<<i, o>>, [itime |-> bearing_itime(graph, i[3], node, o[3])]>> :
        i \in Range(InNodes(graph, node)), o \in Range(OutNodes(graph, node))}

\* Mutant: the Source inode is connected to the In inodes (Source -> In).
SourceEdgesToIn(graph, node) ==
    {<<<<Source(node), i>>, [itime |-> 0]>> : i \in Range(InNodes(graph, node))}

\* Path-ends edges of the Source inode of a node (Source -> Out).
SourceEdges(graph, node) ==
    {<<<<Source(node), o>>, [itime |-> 0]>> : o \in Range(OutNodes(graph, node))}

\* Mutant: the Out inodes are connected to the Destination inode.
DestinationEdgesFromOut(graph, node) ==
    {<<<<o, Destination(node)>>, [itime |-> 0]>> : o \in Range(OutNodes(graph, node))}

\* Mutant: the Destination inode is connected to the In inodes
\* (Destination -> In), so that a path can leave it.
DestinationEdgesToIn(graph, node) ==
    {<<<<Destination(node), i>>, [itime |-> 0]>> : i \in Range(InNodes(graph, node))}

\* Path-ends edges of the Destination inode of a node (In -> Destination).
DestinationEdges(graph, node) ==
    {<<<<i, Destination(node)>>, [itime |-> 0]>> : i \in Range(InNodes(graph, node))}

\* Mutant: every street is taken as a two-way street (an undirected graph).
RealEdgesBothWays(graph) ==
    UNION {{<<<<Out(e[1], e[2]), In(e[2], e[1])>>,
              [itime |-> graph.edge[e].itime, length |-> graph.edge[e].length]>>,
            <<<<Out(e[2], e[1]), In(e[1], e[2])>>,
              [itime |-> graph.edge[e].itime, length |-> graph.edge[e].length]>>} :
              e \in DOMAIN graph.edge}

\* Real edges (Out -> In), keeping 'itime' and 'length'.
RealEdges(graph) ==
    {<<<<Out(e[1], e[2]), In(e[2], e[1])>>,
       [itime |-> graph.edge[e].itime, length |-> graph.edge[e].length]>> :
        e \in DOMAIN graph.edge}

build_igraph_with_bearings(graph) ==
    LET ns == Range(graph.nodes)
        order == Flatten([k \in 1..Len(graph.nodes) |->
                     LET node == graph.nodes[k]
                     IN InNodes(graph, node) \o OutNodes(graph, node)
                        \o <<Source(node), Destination(node)>>])
        added == UNION {BearingEdges(graph, n) \cup SourceEdges(graph, n)
                        \cup DestinationEdges(graph, n) : n \in ns}
                 \cup RealEdges(graph)
    IN [nodes |-> order,
        node |-> [i \in Range(order) |->
                     [x |-> graph.node[i[2]].x, y |-> graph.node[i[2]].y,
                      metanode |-> i[2]]],
        edge |-> [e \in {a[1] : a \in added} |->
                     (CHOOSE a \in added : a[1] = e)[2]]]

build_static_igraph(graph) == build_igraph_with_bearings(set_default_itime(graph))

\* ------------------------------------------------- congestion overlay
\* The congestion states of the feed: no data (0), very fluid (1) ... closed (6).
CongestionStates == 0..Closed

\* Congestion(datetime, current_state, planned_state).
Congestion(datetime, current_state, planned_state) ==
    [datetime |-> datetime, current_state |-> current_state,
     planned_state |-> planned_state]

\* statistics.mean of a non-empty list of integers.
MeanOfStates(states) == Rat(SumSeq(states), Len(states))

\* exp((congestion_state - 1)^2 / 7.5), in thousandths, of a rational state.
congestion_function(congestion_state) ==
    LET n == congestion_state[1] - congestion_state[2]
        d == congestion_state[2]
    IN ExpMilli(2 * n * n, 15 * d * d)

\* Mutant: no copy is made, the function works on the caller's graph object.
GraphCopyAlias(heap, ref) == [heap |-> heap, ref |-> ref]

\* igraph.copy(): a new graph object with new attribute dictionaries.
GraphCopy(heap, ref) ==
    LET new == (CHOOSE r \in 1..(Cardinality(DOMAIN heap) + 1) : r \notin DOMAIN heap)
    IN [heap |-> [r \in DOMAIN heap \cup {new} |->
                     IF r = new THEN heap[ref] ELSE heap[r]],
        ref |-> new]

\* Mutant: no data (0) is kept as the state 0.
ReadingOfRaw(current_state) == current_state

\* The state a highway contributes: no data (0) counts as very fluid (1).
ReadingOf(current_state) == IF current_state = 0 THEN 1 ELSE current_state

\* The street edge of the igraph that the i-th step of a highway path is.
HighwayEdge(highway_path, i) ==
    <<Out(highway_path[i], highway_path[i + 1]), In(highway_path[i + 1], highway_path[i])>>

\* The body of the inner loop: one more state in the edge's 'congestions'.
AddCongestion(g, e, congestion_state) ==
    [g EXCEPT !.edge[e] =
        IF "congestions" \notin DOMAIN @
        THEN [k \in DOMAIN @ \cup {"congestions"} |->
                 IF k = "congestions" THEN <<congestion_state>> ELSE @[k]]
        ELSE [@ EXCEPT !.congestions = Append(@, congestion_state)]]

RECURSIVE AddHighway(_, _, _, _)
\* The inner loop, from step i on, for one highway.
AddHighway(g, highway_path, congestion_state, i) ==
    IF i > Len(highway_path) - 1 THEN g
    ELSE AddHighway(AddCongestion(g, HighwayEdge(highway_path, i), congestion_state),
                    highway_path, congestion_state, i + 1)

RECURSIVE AddHighwaysSkip(_, _, _, _)
\* Mutant: a way ID without congestion is passed over (congestions.get).
AddHighwaysSkip(g, highway_paths, congestions, k) ==
    IF k > Len(highway_paths.order) THEN [g |-> g, raised |-> FALSE]
    ELSE LET way_id == highway_paths.order[k] IN
         IF way_id \notin DOMAIN congestions
         THEN AddHighwaysSkip(g, highway_paths, congestions, k + 1)
         ELSE AddHighwaysSkip(
                  AddHighway(g, highway_paths.path[way_id],
                             ReadingOf(congestions[way_id].current_state), 1),
                  highway_paths, congestions, k + 1)

RECURSIVE AddHighways(_, _, _, _)
\* The outer loop over highway_paths.items(), from the k-th way ID on.
\* A way ID without congestion raises KeyError and ends the call.
AddHighways(g, highway_paths, congestions, k) ==
    IF k > Len(highway_paths.order) THEN [g |-> g, raised |-> FALSE]
    ELSE LET way_id == highway_paths.order[k] IN
         IF way_id \notin DOMAIN congestions THEN [g |-> g, raised |-> TRUE]
         ELSE AddHighways(
                  AddHighway(g, highway_paths.path[way_id],
                             ReadingOf(congestions[way_id].current_state), 1),
                  highway_paths, congestions, k + 1)

\* Mutant: only the first state assigned to the edge can close it.
CongestedItimeFirst(edge_data) ==
    IF "congestions" \in DOMAIN edge_data
    THEN IF Closed = edge_data.congestions[1]
         THEN [edge_data EXCEPT !.itime = Inf]
         ELSE [edge_data EXCEPT !.itime =
                  TimesFactor(@, congestion_function(MeanOfStates(edge_data.congestions)))]
    ELSE edge_data

\* Mutant: an edge without 'congestions' is given the state 0 (no data).
CongestedItimeEvery(edge_data) ==
    IF "congestions" \in DOMAIN edge_data
    THEN IF Closed \in Range(edge_data.congestions)
         THEN [edge_data EXCEPT !.itime = Inf]
         ELSE [edge_data EXCEPT !.itime =
                  TimesFactor(@, congestion_function(MeanOfStates(edge_data.congestions)))]
    ELSE [edge_data EXCEPT !.itime = TimesFactor(@, congestion_function(<<0, 1>>))]

\* The body of the second loop: the itime of one edge.
CongestedItime(edge_data) ==
    IF "congestions" \in DOMAIN edge_data
    THEN IF Closed \in Range(edge_data.congestions)
         THEN [edge_data EXCEPT !.itime = Inf]
         ELSE [edge_data EXCEPT !.itime =
                  TimesFactor(@, congestion_function(MeanOfStates(edge_data.congestions)))]
    ELSE edge_data

\* build_dynamic_igraph on the graph object igraph of the heap: the heap after
\* the call and the reference it returns (or raised).
build_dynamic_igraph(heap, igraph, highway_paths, congestions) ==
    LET copy == GraphCopy(heap, igraph)
        read == AddHighways(copy.heap[copy.ref], highway_paths, congestions, 1)
        done == [read.g EXCEPT !.edge = [e \in DOMAIN read.g.edge |-> CongestedItime(read.g.edge[e])]]
    IN IF read.raised
       THEN [heap |-> [copy.heap EXCEPT ![copy.ref] = read.g], raised |-> TRUE, ref |-> 0]
       ELSE [heap |-> [copy.heap EXCEPT ![copy.ref] = done], raised |-> FALSE, ref |-> copy.ref]

\* ------------------------------------------------------ nearest node
\* The great-circle distance of two points of the meridian, in arc degrees.
haversine(coordinates1, coordinates2) ==
    Abs(coordinates2.latitude - coordinates1.latitude)

node_to_coordinates(graph, node_id) ==
    Coordinates(graph.node[node_id].x, graph.node[node_id].y)

RECURSIVE NearestFromLast(_, _, _, _, _)
\* Mutant: a node at the same distance replaces the nearest one (<=).
NearestFromLast(graph, coordinates, k, nearest_node, nearest_distance) ==
    IF k > Len(graph.nodes) THEN nearest_node
    ELSE LET node == graph.nodes[k]
             distance == haversine(node_to_coordinates(graph, node), coordinates)
         IN IF nearest_distance = Inf \/ distance <= nearest_distance
            THEN NearestFromLast(graph, coordinates, k + 1, node, distance)
            ELSE NearestFromLast(graph, coordinates, k + 1, nearest_node, nearest_distance)

RECURSIVE NearestFrom(_, _, _, _, _)
\* The loop of coordinates_to_node from the k-th node on.
NearestFrom(graph, coordinates, k, nearest_node, nearest_distance) ==
    IF k > Len(graph.nodes) THEN nearest_node
    ELSE LET node == graph.nodes[k]
             distance == haversine(node_to_coordinates(graph, node), coordinates)
         IN IF nearest_distance = Inf \/ distance < nearest_distance
            THEN NearestFrom(graph, coordinates, k + 1, node, distance)
            ELSE NearestFrom(graph, coordinates, k + 1, nearest_node, nearest_distance)

None == <<"None", 0, 0>>

coordinates_to_node(graph, coordinates) ==
    NearestFrom(graph, coordinates, 1, None, Inf)

\* -------------------------------------------------------- path search
Unreached == -1

\* Mutant: the search weighs an edge by 'length' (1 where it has none).
WeightLength(G, e) == IF "length" \in DOMAIN G.edge[e] THEN G.edge[e].length ELSE 1

\* The weight of an edge in the search: weight="itime".
Weight(G, e) == G.edge[e].itime

\* The least of two distances, where Unreached is no distance.
Least(a, b) == IF a = Unreached THEN b ELSE IF b = Unreached THEN a
               ELSE IF a <= b THEN a ELSE b

RECURSIVE LeastOf(_)
LeastOf(S) ==
    IF S = {} THEN Unreached
    ELSE LET a == CHOOSE x \in S : TRUE IN Least(a, LeastOf(S \ {a}))

RECURSIVE Distances(_, _, _)
\* The least total itime from source to every inode (Dijkstra's result),
\* by relaxing every edge until nothing changes.
Distances(g, source, dist) ==
    LET next == [v \in DOMAIN dist |->
                    IF v = source THEN 0
                    ELSE LeastOf({Plus(dist[e[1]], Weight(g, e)) :
                                    e \in {f \in DOMAIN g.edge :
                                             f[2] = v /\ dist[f[1]] # Unreached}})]
    IN IF next = dist THEN dist ELSE Distances(g, source, next)

RECURSIVE PathsTo(_, _, _, _, _)
\* The simple paths from source to v along edges that realise the distances,
\* each followed by the inodes of tail.
PathsTo(g, dist, source, v, tail) ==
    IF v = source THEN {<<v>> \o tail}
    ELSE UNION {PathsTo(g, dist, source, e[1], <<v>> \o tail) :
                  e \in {f \in DOMAIN g.edge :
                           /\ f[2] = v
                           /\ f[1] \notin Range(tail) /\ f[1] # v
                           /\ dist[f[1]] # Unreached
                           /\ Plus(dist[f[1]], Weight(g, f)) = dist[v]}}

\* osmnx.distance.shortest_path(G, [orig], [dest], weight="itime")[0]: the
\* paths it may return, each of least total itime; <<>> is None (no path).
shortest_path(G, orig, dest) ==
    LET dist == Distances(G, orig, [v \in Range(G.nodes) |-> IF v = orig THEN 0 ELSE Unreached])
    IN IF dist[dest] = Unreached THEN {<<>>}
       ELSE PathsTo(G, dist, orig, dest, <<>>)

\* x is float("inf"): x and a new float("inf") are the same object.  Two
\* floats of equal value are the same object only if the interpreter makes
\* them so (same_object); the language leaves that to the implementation.
IsFloatInf(x, same_object) == x = Inf /\ same_object

NoRoute == [none |-> TRUE, coordinates |-> <<>>, called |-> TRUE]

\* get_ipath, given the path the search returned and the outcome of 'is'.
get_ipath(igraph, source_coordinates, destination_coordinates, ipath, same_object) ==
    IF ipath = <<>> THEN NoRoute
    ELSE IF \E i \in 1..(Len(ipath) - 1) :
               IsFloatInf(igraph.edge[<<ipath[i], ipath[i + 1]>>].itime, same_object)
    THEN NoRoute
    ELSE [none |-> FALSE, called |-> TRUE,
          coordinates |-> <<source_coordinates>>
                          \o [i \in 1..Len(ipath) |-> node_to_coordinates(igraph, ipath[i])]
                          \o <<destination_coordinates>>]

\* The Source and Destination inodes get_ipath searches between.
SourceOf(igraph, source_coordinates) ==
    Source(igraph.node[coordinates_to_node(igraph, source_coordinates)].metanode)

DestinationOf(igraph, destination_coordinates) ==
    Destination(igraph.node[coordinates_to_node(igraph, destination_coordinates)].metanode)

\* What get_and_plot_path sends for the result of get_ipath: the plot of
\* the path, or the message that the only way passes a closed road.
get_and_plot_path(ipath) == IF ipath.none THEN "closed road" ELSE "plot"

\* ------------------------------------------------ the dynamic igraph
\* The file DYNAMIC_IGRAPH_FILENAME: whether it exists, whether it holds a
\* whole pickle, and the graph pickled.  datetime, the datetime of the
\* congestions the graph was built from, is no part of the file: it is
\* kept for the statement of properties.
File(data, datetime) ==
    [exists |-> TRUE, complete |-> TRUE, data |-> data, datetime |-> datetime]

\* No file of that name.
NoFile == [exists |-> FALSE, complete |-> FALSE, data |-> Digraph(<<>>, {}), datetime |-> 0]

\* What get_dynamic_igraph returns, and whether it downloaded the
\* congestions ("none", "done" or "failed"); none: it raised instead.
Returned(download, overlay) ==
    [called |-> TRUE, download |-> download, none |-> FALSE, overlay |-> overlay]

Raised(download) ==
    [called |-> TRUE, download |-> download, none |-> TRUE, overlay |-> Digraph(<<>>, {})]

\* bot_data without and with the key "last_congestions_update".
NoBotData == [k \in {} |-> 0]

BotData(datetime) == [last_congestions_update |-> datetime]

\* Mutant: the dynamic igraph is built again when it is older than five
\* minutes (>), not from five minutes on.
IsStaleAfter(bot_data, now) ==
    \/ "last_congestions_update" \notin DOMAIN bot_data
    \/ now - bot_data.last_congestions_update > FreshMinutes

\* The condition of get_dynamic_igraph, with the clock in minutes.
IsStale(bot_data, now) ==
    \/ "last_congestions_update" \notin DOMAIN bot_data
    \/ now - bot_data.last_congestions_update >= FreshMinutes

\* load_data(DYNAMIC_IGRAPH_FILENAME): the object pickled, or the exception
\* of open() or of pickle.load() on a file that is not a whole pickle.
load_data(file) ==
    IF ~file.exists THEN [exception |-> "FileNotFoundError", data |-> file.data]
    ELSE IF ~file.complete THEN [exception |-> "EOFError", data |-> file.data]
    ELSE [exception |-> "none", data |-> file.data]

\* Mutant: the dynamic igraph built is not saved (no save_data).
RefreshNoSave(bot_data, file, heap, igraph, highway_paths, download) ==
    IF ~download.ok
    THEN [bot_data |-> bot_data, file |-> file, exception |-> "URLError",
          returned |-> Raised("failed")]
    ELSE LET call == build_dynamic_igraph(heap, igraph, highway_paths, download.congestions)
         IN IF call.raised
            THEN [bot_data |-> bot_data, file |-> file, exception |-> "KeyError",
                  returned |-> Raised("done")]
            ELSE [bot_data |-> BotData(download.congestions[1].datetime),
                  file |-> file,
                  exception |-> "none",
                  returned |-> Returned("done", call.heap[call.ref])]

\* Mutant: when the download fails the graph of the file is returned.
RefreshOrCached(bot_data, file, heap, igraph, highway_paths, download) ==
    IF ~download.ok
    THEN [bot_data |-> bot_data, file |-> file, exception |-> "none",
          returned |-> Returned("failed", file.data)]
    ELSE LET call == build_dynamic_igraph(heap, igraph, highway_paths, download.congestions)
         IN IF call.raised
            THEN [bot_data |-> bot_data, file |-> file, exception |-> "KeyError",
                  returned |-> Raised("done")]
            ELSE [bot_data |-> BotData(download.congestions[1].datetime),
                  file |-> File(call.heap[call.ref], download.congestions[1].datetime),
                  exception |-> "none",
                  returned |-> Returned("done", call.heap[call.ref])]

\* The first branch of get_dynamic_igraph: download, build, save, and the
\* datetime of the first Congestion kept in bot_data.  An exception of
\* download_congestions or of build_dynamic_igraph ends the call.
Refresh(bot_data, file, heap, igraph, highway_paths, download) ==
    IF ~download.ok
    THEN [bot_data |-> bot_data, file |-> file, exception |-> "URLError",
          returned |-> Raised("failed")]
    ELSE LET call == build_dynamic_igraph(heap, igraph, highway_paths, download.congestions)
         IN IF call.raised
            THEN [bot_data |-> bot_data, file |-> file, exception |-> "KeyError",
                  returned |-> Raised("done")]
            ELSE [bot_data |-> BotData(download.congestions[1].datetime),
                  file |-> File(call.heap[call.ref], download.congestions[1].datetime),
                  exception |-> "none",
                  returned |-> Returned("done", call.heap[call.ref])]

\* get_dynamic_igraph(context) at the time now, where download is what
\* download_congestions does if it is called: the congestions, or a failure.
get_dynamic_igraph(bot_data, now, file, heap, igraph, highway_paths, download) ==
    IF IsStale(bot_data, now)
    THEN Refresh(bot_data, file, heap, igraph, highway_paths, download)
    ELSE LET loaded == load_data(file)
         IN [bot_data |-> bot_data, file |-> file, exception |-> loaded.exception,
             returned |-> IF loaded.exception = "none"
                          THEN Returned("none", loaded.data) ELSE Raised("none")]

\* ------------------------------------------------------------- state
VARIABLES
    graph,          \* the road graph (bot.py: graph)
    heap,           \* the graph objects: reference -> igraph
    igraph,         \* the reference of the static igraph (bot.py: igraph)
    highway_paths,  \* way ID -> list of nodes (bot.py: highway_paths)
    congestions,    \* way ID -> Congestion, as downloaded
    dynamic,        \* the reference build_dynamic_igraph last returned, 0 before
    query,          \* the source and destination coordinates of the query
    ipath,          \* the path the search of get_ipath last returned (inodes)
    route,          \* what get_ipath last returned; called: whether it was called
    walk,           \* the inodes of a path followed over the static igraph
    raw,            \* the digraph downloaded, before the main component is taken
    nearest,        \* what coordinates_to_node last returned; called: whether it was
    exception,      \* the exception the last operation raised, "none" if it returned
    now,            \* datetime.now(), in minutes
    bot_data,       \* context.bot_data
    file,           \* the file DYNAMIC_IGRAPH_FILENAME
    returned,       \* what get_dynamic_igraph last returned; called: whether it was
    proc,           \* the bots that run at once: where each is in get_dynamic_igraph
    turn,           \* two bearings and what bearing_itime returned for them
    reply           \* what get_and_plot_path last sent to the user, "none" before

vars == <<graph, heap, igraph, highway_paths, congestions, dynamic, query, ipath, route, walk,
          raw, nearest, exception, now, bot_data, file, returned, proc, turn, reply>>

\* The variables of the turn costs and of the replies of the bot.
reply_vars == <<turn, reply>>

\* bearing_itime not called.
NoTurn == [called |-> FALSE, incoming |-> 0, outgoing |-> 0, itime |-> 0]

\* The variables of get_dynamic_igraph.
bot_vars == <<now, bot_data, file, returned, proc>>

NotReturned == [called |-> FALSE, download |-> "none", none |-> TRUE, overlay |-> Digraph(<<>>, {})]

\* The processes of bot.py that run in one directory, on one file.
Procs == {1, 2}

\* A process that is in no call of get_dynamic_igraph and has made none:
\* its context.bot_data, the local variables congestions (its datetime) and
\* dynamic_igraph, and what its last call returned or raised.
IdleProc ==
    [pc |-> "idle", bot_data |-> NoBotData, datetime |-> 0,
     dynamic_igraph |-> Digraph(<<>>, {}), returned |-> NotReturned, exception |-> "none"]

\* The variables of the construction of the road graph.
default_vars == <<raw, nearest, exception>>

\* A graph without nodes: also the value of graph before it is built.
EmptyGraph == Digraph(<<>>, {})

NoNearest == [called |-> FALSE, node |-> None]

RECURSIVE Walks(_, _)
\* The walks of at most n nodes along edges of the graph: what
\* build_highway_paths can make of a highway (none or one node: no edge).
Walks(g, n) ==
    IF n = 0 THEN {<<>>}
    ELSE LET shorter == Walks(g, n - 1)
         IN shorter \cup {<<v>> : v \in Range(g.nodes)}
            \cup {Append(p[1], p[2]) :
                    p \in {q \in shorter \X Range(g.nodes) :
                             /\ q[1] # <<>>
                             /\ <<q[1][Len(q[1])], q[2]>> \in DOMAIN g.edge}}

\* The dictionaries build_highway_paths can return for the graph, with
\* highways of at most n nodes.
HighwayPaths(g, n) ==
    {[order |-> SortedSeq(WayIds), path |-> f] : f \in [WayIds -> Walks(g, n)]}

\* The dictionaries download_congestions can return, with states of S.
Congestions(S) ==
    {[w \in WayIds |-> Congestion(0, f[w], 0)] : f \in [WayIds -> S]}

\* The coordinates a query names, south and north of every node.
QueryPoints == {Coordinates(Meridian, lat) : lat \in {41, 47}}

Query(source, destination) == [source |-> source, destination |-> destination]

NotCalled == [none |-> TRUE, coordinates |-> <<>>, called |-> FALSE]

\* The start of bot.py and of _test: the road graph, the highway paths and
\* the static igraph are built (or loaded); a feed and a query are given.
Start(graphs, n, states, queries) ==
    /\ graph \in {set_default_itime(g) : g \in graphs}
    /\ heap = [r \in {1} |-> build_igraph_with_bearings(graph)]
    /\ igraph = 1
    /\ highway_paths \in HighwayPaths(graph, n)
    /\ congestions \in Congestions(states)
    /\ dynamic = 0
    /\ query \in queries
    /\ ipath = <<>>
    /\ route = NotCalled
    /\ walk = <<>>
    /\ raw = EmptyGraph
    /\ nearest = NoNearest
    /\ exception = "none"
    /\ now = 0
    /\ bot_data = NoBotData
    /\ file = NoFile
    /\ returned = NotReturned
    /\ proc = [p \in Procs |-> IdleProc]
    /\ turn = NoTurn
    /\ reply = "none"

\* The graph objects still referenced after a call.
Collect(h, refs) == [r \in DOMAIN h \cap refs |-> h[r]]

\* dynamic_igraph = build_dynamic_igraph(igraph, highway_paths, congestions)
BuildDynamicIgraph ==
    LET call == build_dynamic_igraph(heap, igraph, highway_paths, congestions)
    IN /\ ~call.raised
       /\ dynamic' = call.ref
       /\ heap' = Collect(call.heap, {igraph, call.ref})
       /\ UNCHANGED <<graph, igraph, highway_paths, congestions, query, ipath, route, walk>>
       /\ UNCHANGED default_vars
       /\ UNCHANGED bot_vars
       /\ UNCHANGED reply_vars

\* ipath = get_ipath(dynamic_igraph, source, destination)
GetIpath ==
    /\ dynamic # 0
    /\ LET g == heap[dynamic]
           found == shortest_path(g, SourceOf(g, query.source),
                                  DestinationOf(g, query.destination))
       IN \E p \in found, same_object \in BOOLEAN :
            /\ ipath' = p
            /\ route' = [get_ipath(g, query.source, query.destination, p, same_object)
                            EXCEPT !.called = TRUE]
            /\ UNCHANGED <<graph, heap, igraph, highway_paths, congestions, dynamic,
                           query, walk>>
            /\ UNCHANGED default_vars
            /\ UNCHANGED bot_vars
            /\ UNCHANGED reply_vars

\* A path over the static igraph is followed from a Source inode, one edge
\* at a time, as the loop of get_ipath over the edges of an ipath does.
StartWalk ==
    /\ walk = <<>>
    /\ \E node \in Range(graph.nodes) : walk' = <<Source(node)>>
    /\ UNCHANGED <<graph, heap, igraph, highway_paths, congestions, dynamic, query,
                   ipath, route>>
    /\ UNCHANGED default_vars
    /\ UNCHANGED bot_vars
    /\ UNCHANGED reply_vars

FollowEdge ==
    /\ walk # <<>>
    /\ Len(walk) <= MaxWalk
    /\ \E e \in DOMAIN heap[igraph].edge :
        /\ e[1] = walk[Len(walk)]
        /\ walk' = Append(walk, e[2])
    /\ UNCHANGED <<graph, heap, igraph, highway_paths, congestions, dynamic, query,
                   ipath, route>>
    /\ UNCHANGED default_vars
    /\ UNCHANGED bot_vars
    /\ UNCHANGED reply_vars

\* The road graphs the searches of the model run on: a two-way street, a
\* one-way ring and the complete graph of three nodes.
SearchGraphs ==
    {g \in DefaultGraphs : \/ g.nodes = <<1, 2>>
                           \/ <<1, 2>> \in DOMAIN g.edge /\ Cardinality(DOMAIN g.edge) = 3
                           \/ Cardinality(DOMAIN g.edge) = 6}

\* Highways of at most one street each, dense or closed, every pair of points.
Init ==
    Start(SearchGraphs, 2, {3, Closed},
          {Query(s, d) : s \in QueryPoints, d \in QueryPoints})

Next == BuildDynamicIgraph \/ GetIpath

Spec == Init /\ [][Next]_vars

\* The overlay alone: a two-way street and a one-way ring, highways of up to
\* MaxPathLen nodes, every state of the feed.
OverlayGraphs == {g \in SearchGraphs : Cardinality(DOMAIN g.edge) <= 3}

OneQuery == {Query(s, s) : s \in {Coordinates(Meridian, 41)}}

InitOverlay == Start(OverlayGraphs, MaxPathLen, CongestionStates, OneQuery)

SpecOverlay == InitOverlay /\ [][BuildDynamicIgraph]_vars

\* The expansion alone: every road graph, no highway with a street, and the
\* paths of the static igraph.
InitExpansion == Start(DefaultGraphs, 0, {0}, OneQuery)

NextExpansion == StartWalk \/ FollowEdge

SpecExpansion == InitExpansion /\ [][NextExpansion]_vars

\* The construction of the road graph and the nearest node: every digraph
\* on the nodes, in every iteration order, and a point at every latitude
\* around them.
Orders ==
    {o \in UNION {[1..k -> Nodes] : k \in 0..Cardinality(Nodes)} :
        \A i, j \in DOMAIN o : o[i] = o[j] => i = j}

RawGraphs ==
    UNION {{Digraph(o, E) :
              E \in SUBSET {e \in Range(o) \X Range(o) : e[1] # e[2]}} : o \in Orders}

Latitudes == 41..47

InitDefault ==
    /\ raw \in RawGraphs
    /\ graph = EmptyGraph
    /\ heap = <<>>
    /\ igraph = 0
    /\ highway_paths = [order |-> <<>>, path |-> <<>>]
    /\ congestions = <<>>
    /\ dynamic = 0
    /\ query \in {Query(p, p) : p \in {Coordinates(Meridian, lat) : lat \in Latitudes}}
    /\ ipath = <<>>
    /\ route = NotCalled
    /\ walk = <<>>
    /\ nearest = NoNearest
    /\ exception = "none"
    /\ now = 0
    /\ bot_data = NoBotData
    /\ file = NoFile
    /\ returned = NotReturned
    /\ proc = [p \in Procs |-> IdleProc]
    /\ turn = NoTurn
    /\ reply = "none"

\* graph = build_default_graph(PLACE), from the digraph downloaded on: the
\* main strongly connected component; max() of no component raises.
BuildDefaultGraph ==
    /\ graph = EmptyGraph
    /\ exception = "none"
    /\ IF strongly_connected_components(raw) = {}
       THEN exception' = "ValueError" /\ UNCHANGED graph
       ELSE /\ \E c \in Largest(strongly_connected_components(raw)) :
                 graph' = build_default_graph(raw, c)
            /\ UNCHANGED exception
    /\ UNCHANGED <<heap, igraph, highway_paths, congestions, dynamic, query, ipath,
                   route, walk, raw, nearest>>
    /\ UNCHANGED bot_vars
    /\ UNCHANGED reply_vars

\* set_default_itime(graph), the first step of build_static_igraph.
SetDefaultItime ==
    /\ \E e \in DOMAIN graph.edge : "itime" \notin DOMAIN graph.edge[e]
    /\ graph' = set_default_itime(graph)
    /\ UNCHANGED <<heap, igraph, highway_paths, congestions, dynamic, query, ipath,
                   route, walk, raw, nearest, exception>>
    /\ UNCHANGED bot_vars
    /\ UNCHANGED reply_vars

\* coordinates_to_node(graph, coordinates) on a graph the caller gives.
CoordinatesToNode ==
    /\ ~nearest.called
    /\ nearest' = [called |-> TRUE, node |-> coordinates_to_node(raw, query.source)]
    /\ UNCHANGED <<graph, heap, igraph, highway_paths, congestions, dynamic, query,
                   ipath, route, walk, raw, exception>>
    /\ UNCHANGED bot_vars
    /\ UNCHANGED reply_vars

NextDefault == BuildDefaultGraph \/ SetDefaultItime \/ CoordinatesToNode

SpecDefault == InitDefault /\ [][NextDefault]_vars

\* set_default_itime(graph) once more, on the graph object it has already
\* been applied to once (as a second build_static_igraph(graph) does).
SetDefaultItimeAgain ==
    /\ DOMAIN graph.edge # {}
    /\ graph = set_default_itime(subgraph(raw, Range(graph.nodes)))
    /\ graph' = set_default_itime(graph)
    /\ UNCHANGED <<heap, igraph, highway_paths, congestions, dynamic, query, ipath,
                   route, walk, raw, nearest, exception>>
    /\ UNCHANGED bot_vars
    /\ UNCHANGED reply_vars

NextAgain == BuildDefaultGraph \/ SetDefaultItime \/ SetDefaultItimeAgain

\* The construction of the road graph with a second set_default_itime.
SpecAgain == InitDefault /\ [][NextAgain]_vars

\* The bot: a two-way street, the highway of way 1 on one of its streets and
\* that of way 2 on none or on the other, a clock, and the dynamic igraph
\* asked for at any minute.
BotGraphs == {g \in SearchGraphs : g.nodes = <<1, 2>>}

\* The congestions the feed serves with the given datetime: every highway
\* in one of the given states.
FeedsOf(datetime, states) ==
    {[w \in WayIds |-> Congestion(datetime, state, 0)] : state \in states}

Feeds(datetime) == FeedsOf(datetime, {2, Closed})

\* What download_congestions can do at the given time: raise, or return
\* congestions that were updated one of lags minutes ago.
DownloadsOf(time, lags, states) ==
    {[ok |-> FALSE, congestions |-> <<>>]}
    \cup {[ok |-> TRUE, congestions |-> c] :
            c \in UNION {FeedsOf(time - lag, states) : lag \in lags}}

\* The same with congestions updated at most MaxLag minutes ago.
Downloads(time) == DownloadsOf(time, 0..MaxLag, {2, Closed})

\* The file an earlier run of the bot has left, if any.
LeftFiles(h, ig, hp) ==
    {NoFile} \cup {File(call.heap[call.ref], 0 - 1) :
                     call \in {build_dynamic_igraph(h, ig, hp, c) : c \in Feeds(0 - 1)}}

InitBot ==
    /\ graph \in {set_default_itime(g) : g \in BotGraphs}
    /\ heap = [r \in {1} |-> build_igraph_with_bearings(graph)]
    /\ igraph = 1
    /\ highway_paths \in {hp \in HighwayPaths(graph, 2) :
                             hp.path[1] = <<1, 2>> /\ hp.path[2] \in {<<>>, <<2, 1>>}}
    /\ congestions = <<>>
    /\ dynamic = 0
    /\ query \in OneQuery
    /\ ipath = <<>>
    /\ route = NotCalled
    /\ walk = <<>>
    /\ raw = EmptyGraph
    /\ nearest = NoNearest
    /\ exception = "none"
    /\ now = 0
    /\ bot_data = NoBotData
    /\ file \in LeftFiles(heap, igraph, highway_paths)
    /\ returned = NotReturned
    /\ proc = [p \in Procs |-> IdleProc]
    /\ turn = NoTurn
    /\ reply = "none"

\* A minute passes.
Tick ==
    /\ now < MaxTime
    /\ now' = now + 1
    /\ UNCHANGED <<graph, heap, igraph, highway_paths, congestions, dynamic, query,
                   ipath, route, walk, raw, nearest, exception, bot_data, file, returned,
                   proc>>
    /\ UNCHANGED reply_vars

\* dynamic_igraph = get_dynamic_igraph(context)
GetDynamicIgraph ==
    \E download \in Downloads(now) :
        LET call == get_dynamic_igraph(bot_data, now, file, heap, igraph,
                                       highway_paths, download)
        IN /\ bot_data' = call.bot_data
           /\ file' = call.file
           /\ returned' = call.returned
           /\ exception' = call.exception
           /\ congestions' = IF call.returned.download = "done"
                             THEN download.congestions ELSE congestions
           /\ UNCHANGED <<graph, heap, igraph, highway_paths, dynamic, query, ipath,
                          route, walk, raw, nearest, now, proc>>
           /\ UNCHANGED reply_vars

NextBot == Tick \/ GetDynamicIgraph

SpecBot == InitBot /\ [][NextBot]_vars

\* Two bots at once: get_dynamic_igraph one statement at a time in each,
\* with the condition (276-277), the download and the build (278-279), the
\* open() and the pickle.dump() of save_data (280), the assignment to
\* bot_data (283) and load_data (285) as the steps.
Unshared == <<graph, heap, igraph, highway_paths, congestions, dynamic, query, ipath,
              route, walk, raw, nearest, exception, bot_data, returned, turn, reply>>

\* if "last_congestions_update" not in context.bot_data or ... >= 5:
CheckAge(p) ==
    /\ proc[p].pc = "idle"
    /\ proc' = [proc EXCEPT ![p].pc =
                    IF IsStale(proc[p].bot_data, now) THEN "download" ELSE "load"]
    /\ UNCHANGED <<now, file>>
    /\ UNCHANGED Unshared

\* congestions = igo.download_congestions(CONGESTIONS_URL)
\* dynamic_igraph = igo.build_dynamic_igraph(igraph, highway_paths, congestions)
DownloadAndBuild(p) ==
    /\ proc[p].pc = "download"
    /\ \E download \in DownloadsOf(now, {0}, {Closed}) :
          LET call == build_dynamic_igraph(heap, igraph, highway_paths, download.congestions)
          IN proc' = [proc EXCEPT ![p] =
                IF ~download.ok
                THEN [@ EXCEPT !.pc = "idle", !.exception = "URLError",
                               !.returned = Raised("failed")]
                ELSE IF call.raised
                THEN [@ EXCEPT !.pc = "idle", !.exception = "KeyError",
                               !.returned = Raised("done")]
                ELSE [@ EXCEPT !.pc = "open", !.dynamic_igraph = call.heap[call.ref],
                               !.datetime = download.congestions[1].datetime]]
    /\ UNCHANGED <<now, file>>
    /\ UNCHANGED Unshared

\* save_data: with open(filename, "wb") as file -- the file is now empty.
OpenToWrite(p) ==
    /\ proc[p].pc = "open"
    /\ file' = [exists |-> TRUE, complete |-> FALSE, data |-> Digraph(<<>>, {}),
                datetime |-> file.datetime]
    /\ proc' = [proc EXCEPT ![p].pc = "dump"]
    /\ UNCHANGED now
    /\ UNCHANGED Unshared

\* save_data: pickle.dump(data, file), and the file is closed.
Dump(p) ==
    /\ proc[p].pc = "dump"
    /\ file' = File(proc[p].dynamic_igraph, proc[p].datetime)
    /\ proc' = [proc EXCEPT ![p].pc = "update"]
    /\ UNCHANGED now
    /\ UNCHANGED Unshared

\* context.bot_data["last_congestions_update"] = congestions[1].datetime
\* return dynamic_igraph
UpdateAndReturn(p) ==
    /\ proc[p].pc = "update"
    /\ proc' = [proc EXCEPT ![p] =
                    [@ EXCEPT !.pc = "idle", !.bot_data = BotData(proc[p].datetime),
                              !.exception = "none",
                              !.returned = Returned("done", proc[p].dynamic_igraph)]]
    /\ UNCHANGED <<now, file>>
    /\ UNCHANGED Unshared

\* dynamic_igraph = igo.load_data(DYNAMIC_IGRAPH_FILENAME)
\* return dynamic_igraph
LoadAndReturn(p) ==
    /\ proc[p].pc = "load"
    /\ LET loaded == load_data(file)
       IN proc' = [proc EXCEPT ![p] =
                    [@ EXCEPT !.pc = "idle", !.exception = loaded.exception,
                              !.returned = IF loaded.exception = "none"
                                           THEN Returned("none", loaded.data)
                                           ELSE Raised("none")]]
    /\ UNCHANGED <<now, file>>
    /\ UNCHANGED Unshared

\* A minute passes for both bots.
TickAll ==
    /\ now < MaxRace
    /\ now' = now + 1
    /\ UNCHANGED <<file, proc>>
    /\ UNCHANGED Unshared

NextConcurrent ==
    \/ TickAll
    \/ \E p \in Procs :
          \/ CheckAge(p)
          \/ DownloadAndBuild(p)
          \/ OpenToWrite(p)
          \/ Dump(p)
          \/ UpdateAndReturn(p)
          \/ LoadAndReturn(p)

\* One highway and no file left by an earlier run.
InitConcurrent ==
    /\ InitBot
    /\ highway_paths.path[2] = <<>>
    /\ file = NoFile

SpecConcurrent == InitConcurrent /\ [][NextConcurrent]_vars

\* Dictionaries that do not match: highway paths for some of the way IDs
\* only, and congestions for some of the way IDs and of the IDs of ways of
\* the feed that have no highway path.
FeedOnlyIds == {3}

SomeHighwayPaths(g, n) ==
    UNION {{[order |-> SortedSeq(W), path |-> f] : f \in [W -> Walks(g, n)]} :
              W \in SUBSET WayIds}

SomeCongestions(S) ==
    UNION {{[w \in W |-> Congestion(0, f[w], 0)] : f \in [W -> S]} :
              W \in SUBSET (WayIds \cup FeedOnlyIds)}

InitPartial ==
    /\ graph \in {set_default_itime(g) : g \in BotGraphs}
    /\ heap = [r \in {1} |-> build_igraph_with_bearings(graph)]
    /\ igraph = 1
    /\ highway_paths \in SomeHighwayPaths(graph, 2)
    /\ congestions \in SomeCongestions({0, 3, Closed})
    /\ dynamic = 0
    /\ query \in OneQuery
    /\ ipath = <<>>
    /\ route = NotCalled
    /\ walk = <<>>
    /\ raw = EmptyGraph
    /\ nearest = NoNearest
    /\ exception = "none"
    /\ now = 0
    /\ bot_data = NoBotData
    /\ file = NoFile
    /\ returned = NotReturned
    /\ proc = [p \in Procs |-> IdleProc]
    /\ turn = NoTurn
    /\ reply = "none"

\* dynamic_igraph = build_dynamic_igraph(igraph, highway_paths, congestions)
\* where congestions[way_id] raises KeyError: nothing is assigned, and the
\* copy the function was working on is dropped.
BuildDynamicIgraphRaises ==
    LET call == build_dynamic_igraph(heap, igraph, highway_paths, congestions)
    IN /\ call.raised
       /\ exception' = "KeyError"
       /\ heap' = Collect(call.heap, {igraph, dynamic})
       /\ UNCHANGED <<graph, igraph, highway_paths, congestions, dynamic, query, ipath,
                      route, walk, raw, nearest>>
       /\ UNCHANGED bot_vars
       /\ UNCHANGED reply_vars

NextPartial == BuildDynamicIgraph \/ BuildDynamicIgraphRaises

SpecPartial == InitPartial /\ [][NextPartial]_vars

\* The handler of a /go query once the location is known: a two-way street,
\* the location and the destination of the user south of both nodes, between
\* them or north of both, the clock and the feed of the bot.
HandlerPoints == {Coordinates(Meridian, lat) : lat \in {41, 43, 47}}

InitHandler ==
    /\ graph \in {set_default_itime(g) : g \in BotGraphs}
    /\ heap = [r \in {1} |-> build_igraph_with_bearings(graph)]
    /\ igraph = 1
    /\ highway_paths \in {hp \in HighwayPaths(graph, 2) :
                             hp.path[1] = <<1, 2>> /\ hp.path[2] = <<>>}
    /\ congestions = <<>>
    /\ dynamic = 0
    /\ query \in {Query(s, d) : s \in HandlerPoints, d \in HandlerPoints}
    /\ ipath = <<>>
    /\ route = NotCalled
    /\ walk = <<>>
    /\ raw = EmptyGraph
    /\ nearest = NoNearest
    /\ exception = "none"
    /\ now = 0
    /\ bot_data = NoBotData
    /\ file = NoFile
    /\ returned = NotReturned
    /\ proc = [p \in Procs |-> IdleProc]
    /\ turn = NoTurn
    /\ reply = "none"

\* get_and_plot_path(update, context), whole: the message that the user is
\* already there, or get_dynamic_igraph and get_ipath and then the plot or
\* the message of the closed road.  route and returned are those of this
\* call: called tells whether it called get_ipath and get_dynamic_igraph.
GetAndPlotPath ==
    IF query.source = query.destination
    THEN /\ reply' = "already here"
         /\ route' = NotCalled
         /\ returned' = NotReturned
         /\ ipath' = <<>>
         /\ exception' = "none"
         /\ UNCHANGED <<graph, heap, igraph, highway_paths, congestions, dynamic, query,
                        walk, raw, nearest, now, bot_data, file, proc, turn>>
    ELSE \E download \in Downloads(now) :
            LET call == get_dynamic_igraph(bot_data, now, file, heap, igraph,
                                           highway_paths, download)
                dynamic_igraph == call.returned.overlay
            IN /\ bot_data' = call.bot_data
               /\ file' = call.file
               /\ returned' = call.returned
               /\ congestions' = IF call.returned.download = "done"
                                 THEN download.congestions ELSE congestions
               /\ exception' = call.exception
               /\ IF call.exception # "none"
                  THEN ipath' = <<>> /\ route' = NotCalled /\ reply' = "none"
                  ELSE \E p \in shortest_path(dynamic_igraph,
                                              SourceOf(dynamic_igraph, query.source),
                                              DestinationOf(dynamic_igraph, query.destination)),
                          same_object \in BOOLEAN :
                          /\ ipath' = p
                          /\ route' = get_ipath(dynamic_igraph, query.source,
                                                query.destination, p, same_object)
                          /\ reply' = get_and_plot_path(route')
               /\ UNCHANGED <<graph, heap, igraph, highway_paths, dynamic, query, walk,
                              raw, nearest, now, proc, turn>>

NextHandler == Tick \/ GetAndPlotPath

SpecHandler == InitHandler /\ [][NextHandler]_vars

\* The turn costs: bearing_itime for a street that comes in along one of
\* the four cardinal directions and a street that goes out along any whole
\* degree of [0, 360).
IncomingBearings == {0, 90, 180, 270}

OutgoingBearings == 0..(FullTurn - 1)

\* A graph of the two streets 1 -> 2 and 2 -> 3 with the given bearings.
TurnGraph(incoming, outgoing) ==
    [edge |-> (<<1, 2>> :> [bearing |-> incoming]) @@ (<<2, 3>> :> [bearing |-> outgoing])]

InitBearing ==
    /\ turn \in {[called |-> FALSE, incoming |-> i, outgoing |-> o, itime |-> 0] :
                    i \in IncomingBearings, o \in OutgoingBearings}
    /\ reply = "none"
    /\ raw = EmptyGraph
    /\ graph = EmptyGraph
    /\ heap = <<>>
    /\ igraph = 0
    /\ highway_paths = [order |-> <<>>, path |-> <<>>]
    /\ congestions = <<>>
    /\ dynamic = 0
    /\ query \in OneQuery
    /\ ipath = <<>>
    /\ route = NotCalled
    /\ walk = <<>>
    /\ nearest = NoNearest
    /\ exception = "none"
    /\ now = 0
    /\ bot_data = NoBotData
    /\ file = NoFile
    /\ returned = NotReturned
    /\ proc = [p \in Procs |-> IdleProc]

\* bearing_itime(igraph, predecessor, node, successor)
BearingItime ==
    /\ ~turn.called
    /\ turn' = [turn EXCEPT !.called = TRUE,
                            !.itime = bearing_itime(TurnGraph(turn.incoming, turn.outgoing),
                                                    1, 2, 3)]
    /\ UNCHANGED <<graph, heap, igraph, highway_paths, congestions, dynamic, query, ipath,
                   route, walk, reply>>
    /\ UNCHANGED default_vars
    /\ UNCHANGED bot_vars

SpecBearing == InitBearing /\ [][BearingItime]_vars

\* ------------------------------------------------------------ claims
Static == heap[igraph]

\* The street (real) edges of an igraph: Out -> In.
StreetEdges(g) == {e \in DOMAIN g.edge : Kind(e[1]) = "O" /\ Kind(e[2]) = "I"}

\* The steps of the highway of a way ID that are the street edge e.
Occurrences(way_id, e) ==
    {i \in 1..(Len(highway_paths.path[way_id]) - 1) :
        HighwayEdge(highway_paths.path[way_id], i) = e}

\* The way IDs of the highways the street edge e lies on.
Covering(e) == {w \in WayIds : Occurrences(w, e) # {}}

ClosedWays == {w \in WayIds : congestions[w].current_state = Closed}

\* The inode IDs of the edges of a path, in order.
EdgesOf(path) == [i \in 1..(Len(path) - 1) |-> <<path[i], path[i + 1]>>]

StreetCount(path) ==
    Cardinality({i \in 1..(Len(path) - 1) : Kind(path[i]) = "O" /\ Kind(path[i + 1]) = "I"})

BearingCount(path) ==
    Cardinality({i \in 1..(Len(path) - 1) : Kind(path[i]) = "I" /\ Kind(path[i + 1]) = "O"})

RECURSIVE TotalItime(_, _)
TotalItime(g, path) ==
    IF Len(path) < 2 THEN 0
    ELSE Plus(g.edge[<<path[1], path[2]>>].itime, TotalItime(g, Tail(path)))

\* C1: whenever the path of least itime from the Source to the Destination
\* inode passes an edge of infinite itime (a closed road), get_ipath returns
\* None and no list of coordinates.
C1_ClosedRoadIsNoRoute ==
    (/\ route.called
     /\ ipath # <<>>
     /\ \E i \in 1..(Len(ipath) - 1) : heap[dynamic].edge[EdgesOf(ipath)[i]].itime = Inf)
    => route.none

\* C2: after any number of calls of build_dynamic_igraph the static igraph
\* has the nodes, the edges and the itimes it was built with, and no edge of
\* it has a 'congestions' attribute.
C2_StaticUnchanged ==
    /\ Static = build_igraph_with_bearings(graph)
    /\ \A e \in DOMAIN Static.edge : "congestions" \notin DOMAIN Static.edge[e]

C2_Witness ==
    /\ dynamic # 0
    /\ \E e \in StreetEdges(Static) : Covering(e) # {} /\ Covering(e) \cap ClosedWays = {}
    /\ \E e \in StreetEdges(Static) : Covering(e) \cap ClosedWays # {}

\* C3: a call of build_dynamic_igraph that follows another with the same
\* static igraph, highway paths and congestions returns a graph with the
\* same itime on every edge.
C3_SecondCallSameItimes ==
    [][(dynamic # 0 /\ dynamic' # 0
        /\ highway_paths' = highway_paths /\ congestions' = congestions)
       => /\ DOMAIN heap'[dynamic'].edge = DOMAIN heap[dynamic].edge
          /\ \A e \in DOMAIN heap[dynamic].edge :
                heap'[dynamic'].edge[e].itime = heap[dynamic].edge[e].itime]_vars

\* The second call has returned (the first returns the object after the
\* static igraph, the second a newer one) and some street is slowed down.
C3_Witness ==
    /\ dynamic > igraph + 1
    /\ \E e \in StreetEdges(Static) :
          /\ heap[dynamic].edge[e].itime # Inf
          /\ heap[dynamic].edge[e].itime > Static.edge[e].itime

\* C4: in the graph build_dynamic_igraph returns, every street edge that
\* lies on a highway whose current state is 6 has an infinite itime,
\* whatever the states of the other highways on that edge.
C4_ClosedRoadDominates ==
    dynamic # 0 =>
        \A e \in StreetEdges(heap[dynamic]) :
            Covering(e) \cap ClosedWays # {} => heap[dynamic].edge[e].itime = Inf

\* A street closed by the second highway and open by the first.
C4_Witness ==
    /\ dynamic # 0
    /\ \E e \in StreetEdges(heap[dynamic]) :
          /\ Covering(e) = WayIds
          /\ 2 \in ClosedWays /\ 1 \notin ClosedWays
          /\ heap[dynamic].edge[e].itime = Inf

\* The sum and the number of the states read for a street edge: one per
\* occurrence of the edge in a highway path, with 0 read as 1.
RECURSIVE ReadSum(_, _)
ReadSum(ways, e) ==
    IF ways = {} THEN 0
    ELSE LET w == CHOOSE x \in ways : TRUE
             state == congestions[w].current_state
         IN Cardinality(Occurrences(w, e)) * (IF state = 0 THEN 1 ELSE state)
            + ReadSum(ways \ {w}, e)

RECURSIVE ReadCount(_, _)
ReadCount(ways, e) ==
    IF ways = {} THEN 0
    ELSE LET w == CHOOSE x \in ways : TRUE
         IN Cardinality(Occurrences(w, e)) + ReadCount(ways \ {w}, e)

\* The base itime of a street edge: that of the street of the road graph.
BaseItime(e) == graph.edge[<<e[1][2], e[2][2]>>].itime

\* C5: a street edge on one or more highways, none of them closed, gets the
\* base itime times congestion_function of the mean of their states, one
\* state per occurrence of the edge in a highway path, 0 counted as 1.
C5_MeanOfStates ==
    dynamic # 0 =>
        \A e \in StreetEdges(heap[dynamic]) :
            (Covering(e) # {} /\ Covering(e) \cap ClosedWays = {}) =>
                heap[dynamic].edge[e].itime =
                    TimesFactor(BaseItime(e),
                                congestion_function(Rat(ReadSum(WayIds, e), ReadCount(WayIds, e))))

\* A street of two highways, one without data and one dense or worse, that
\* one of them passes twice.
C5_Witness ==
    /\ dynamic # 0
    /\ \E e \in StreetEdges(heap[dynamic]) :
          /\ Covering(e) = WayIds /\ ClosedWays = {}
          /\ congestions[1].current_state = 0 /\ congestions[2].current_state >= 3
          /\ Cardinality(Occurrences(2, e)) = 2
          /\ heap[dynamic].edge[e].itime > BaseItime(e)

\* C6: the graph build_dynamic_igraph returns has the nodes and the edges of
\* the static igraph, and every edge that is no street edge of a highway has
\* the itime it has in the static igraph.
C6_OnlyCoveredStreetsChange ==
    dynamic # 0 =>
        /\ heap[dynamic].nodes = Static.nodes
        /\ DOMAIN heap[dynamic].node = DOMAIN Static.node
        /\ DOMAIN heap[dynamic].edge = DOMAIN Static.edge
        /\ \A e \in DOMAIN Static.edge :
              (e \notin StreetEdges(Static) \/ Covering(e) = {}) =>
                  heap[dynamic].edge[e].itime = Static.edge[e].itime

\* A call that changed a street and left another street and a turn alone.
C6_Witness ==
    /\ dynamic # 0
    /\ \E e \in StreetEdges(Static) : heap[dynamic].edge[e].itime # Static.edge[e].itime
    /\ \E e \in StreetEdges(Static) : Covering(e) = {}
    /\ \E e \in DOMAIN Static.edge : Kind(e[1]) = "I" /\ Kind(e[2]) = "O"
                                      /\ Static.edge[e].itime > 0

\* C7 as stated: for every node N the Source inode of N has an edge of itime
\* 0 to every In (entry) inode of N, one per predecessor of N.
C7_SourceToEveryIn ==
    \A e \in DOMAIN graph.edge :
        /\ <<Source(e[2]), In(e[2], e[1])>> \in DOMAIN Static.edge
        /\ Static.edge[<<Source(e[2]), In(e[2], e[1])>>].itime = 0

\* C7 as amended: for every node N the Source inode of N has an edge of
\* itime 0 to every Out (exit) inode of N, one per successor of N, and no
\* edge to an In inode.
C7_SourceToEveryOut ==
    /\ \A e \in DOMAIN graph.edge :
          /\ <<Source(e[1]), Out(e[1], e[2])>> \in DOMAIN Static.edge
          /\ Static.edge[<<Source(e[1]), Out(e[1], e[2])>>].itime = 0
    /\ \A e \in DOMAIN Static.edge : Kind(e[1]) = "S" => Kind(e[2]) = "O"

\* A node with two successors and two predecessors in the igraph built.
C7_Witness ==
    /\ \E n \in Range(graph.nodes) :
          /\ Len(Successors(graph, n)) = 2 /\ Len(Predecessors(graph, n)) = 2
          /\ \A s \in Range(Successors(graph, n)) :
                <<Source(n), Out(n, s)>> \in DOMAIN Static.edge
    /\ walk # <<>>

\* C8: the path-ends edges of the igraph are exactly one edge S_N -> O_N_s
\* for every successor s of N and one edge I_N_p -> D_N for every
\* predecessor p of N, all of itime 0.
C8_PathEndsEdges ==
    LET ends == {e \in DOMAIN Static.edge : {Kind(e[1]), Kind(e[2])} \cap {"S", "D"} # {}}
    IN /\ ends = {<<Source(e[1]), Out(e[1], e[2])>> : e \in DOMAIN graph.edge}
                 \cup {<<In(e[2], e[1]), Destination(e[2])>> : e \in DOMAIN graph.edge}
       /\ \A e \in ends : Static.edge[e].itime = 0

\* A followed path that ends at the Destination inode of a node with two
\* predecessors.
C8_Witness ==
    /\ Len(walk) >= 2
    /\ Kind(walk[Len(walk)]) = "D"
    /\ Len(Predecessors(graph, walk[Len(walk)][2])) = 2
    /\ <<walk[Len(walk) - 1], walk[Len(walk)]>> \in DOMAIN Static.edge

\* C9: a path of the igraph from a Source to a Destination inode passes
\* k >= 1 street edges and exactly k - 1 bearing edges, and its first and
\* last edges have itime 0; along a single street its total itime is the
\* base itime of that street.
C9_NoTurnCostAtEnds ==
    (Len(walk) >= 2 /\ Kind(walk[1]) = "S" /\ Kind(walk[Len(walk)]) = "D") =>
        /\ StreetCount(walk) >= 1
        /\ BearingCount(walk) = StreetCount(walk) - 1
        /\ Static.edge[<<walk[1], walk[2]>>].itime = 0
        /\ Static.edge[<<walk[Len(walk) - 1], walk[Len(walk)]>>].itime = 0
        /\ StreetCount(walk) = 1 =>
              TotalItime(Static, walk) = graph.edge[<<walk[1][2], walk[Len(walk)][2]>>].itime

\* A path of three streets and two turns, one of them with a cost.
C9_Witness ==
    /\ Len(walk) >= 2 /\ Kind(walk[1]) = "S" /\ Kind(walk[Len(walk)]) = "D"
    /\ StreetCount(walk) = 3 /\ BearingCount(walk) = 2
    /\ TotalItime(Static, walk) >
          SumSeq([i \in 1..3 |-> graph.edge[<<walk[2 * i][2], walk[2 * i + 1][2]>>].itime])

\* The Source and Destination inodes of the query are of one node.
SameMetanode ==
    SourceOf(Static, query.source)[2] = DestinationOf(Static, query.destination)[2]

\* C10: when source and destination resolve to the same node, get_ipath
\* returns a path that passes no street edge.
C10_SameNodeTrivialPath ==
    (route.called /\ SameMetanode) => (~route.none /\ StreetCount(ipath) = 0)

RECURSIVE SimplePaths(_, _, _)
\* Every path of g without a repeated inode that extends path to dest.
SimplePaths(g, path, dest) ==
    IF path[Len(path)] = dest THEN {path}
    ELSE UNION {SimplePaths(g, Append(path, e[2]), dest) :
                  e \in {f \in DOMAIN g.edge :
                           f[1] = path[Len(path)] /\ f[2] \notin Range(path)}}

\* C11: the path the search of get_ipath finds goes from the Source inode of
\* the query to its Destination inode and no path between them has a smaller
\* total itime; it passes an edge of infinite itime only if every path does.
C11_MinimumItime ==
    (route.called /\ ipath # <<>>) =>
        LET g == heap[dynamic]
            all == SimplePaths(g, <<SourceOf(g, query.source)>>,
                               DestinationOf(g, query.destination))
        IN /\ ipath \in all
           /\ \A p \in all : TotalItime(g, ipath) <= TotalItime(g, p)
           /\ TotalItime(g, ipath) = Inf => \A p \in all : TotalItime(g, p) = Inf

\* The direct street is closed and the search goes around it over two open
\* streets and a turn.
C11_Witness ==
    /\ route.called /\ ipath # <<>>
    /\ StreetCount(ipath) = 2
    /\ TotalItime(heap[dynamic], ipath) < Inf
    /\ \E p \in SimplePaths(heap[dynamic], <<ipath[1]>>, ipath[Len(ipath)]) :
          StreetCount(p) = 1 /\ TotalItime(heap[dynamic], p) = Inf

\* C12: a query whose only route passes a closed road (a single street with
\* the congestion state 6) ends as 'blocked': the search reports no route
\* and the user is told of the closed road; a query without any path does
\* not end as 'blocked'.
C12_BlockedNotDisconnected ==
    route.called =>
        LET g == heap[dynamic]
            all == SimplePaths(g, <<SourceOf(g, query.source)>>,
                               DestinationOf(g, query.destination))
        IN /\ (all # {} /\ \A p \in all : TotalItime(g, p) = Inf) =>
                  (route.none /\ get_and_plot_path(route) = "closed road")
           /\ all = {} => get_and_plot_path(route) # "closed road"

\* The place of a node in the iteration order of a graph.
IndexOf(G, n) == CHOOSE i \in 1..Len(G.nodes) : G.nodes[i] = n

\* The distance from the node n of the graph given to the point queried.
DistanceTo(n) == haversine(node_to_coordinates(raw, n), query.source)

\* C13: on a graph with nodes coordinates_to_node returns a node of it that
\* no node is nearer to the coordinates than, and of the nodes at that least
\* distance the one that comes first in the iteration order of the graph.
C13_NearestFirst ==
    (nearest.called /\ raw.nodes # <<>>) =>
        /\ nearest.node \in Range(raw.nodes)
        /\ \A m \in Range(raw.nodes) :
              /\ DistanceTo(nearest.node) <= DistanceTo(m)
              /\ DistanceTo(m) = DistanceTo(nearest.node) =>
                    IndexOf(raw, nearest.node) <= IndexOf(raw, m)

\* Two nodes at the least distance: the one returned comes first in the
\* iteration order and has the greater ID, and a third node is farther.
C13_Witness ==
    /\ nearest.called /\ Len(raw.nodes) = 3
    /\ \E m \in Range(raw.nodes) :
          /\ m < nearest.node
          /\ DistanceTo(m) = DistanceTo(nearest.node)
          /\ IndexOf(raw, nearest.node) < IndexOf(raw, m)
    /\ \E m \in Range(raw.nodes) : DistanceTo(m) > DistanceTo(nearest.node)

\* C14: coordinates_to_node raises an error on a graph without nodes, where
\* it returns no value, and raises in no other case.
C14_EmptyGraphRaises ==
    nearest.called =>
        /\ raw.nodes = <<>> => (exception # "none" /\ nearest.node = None)
        /\ raw.nodes # <<>> => exception = "none"

\* build_default_graph has returned a graph.
Built == graph # EmptyGraph

\* C15: the graph build_default_graph returns is strongly connected: every
\* node of it is reached from every node of it along its directed edges.
C15_StronglyConnected ==
    Built =>
        /\ graph.nodes # <<>>
        /\ \A u, v \in Range(graph.nodes) : v \in ReachFrom(DOMAIN graph.edge, {u})

\* Two nodes of a downloaded graph of three are kept, and a street from
\* them to the third node, from which no street comes back, is cut off.
C15_Witness ==
    /\ Built
    /\ Len(raw.nodes) = 3 /\ Len(graph.nodes) = 2
    /\ \E e \in DOMAIN raw.edge : e[1] \in Range(graph.nodes) /\ e[2] \notin Range(graph.nodes)

\* C16: when the largest strongly connected component of the downloaded
\* graph has no edge (every component is a single node), build_default_graph
\* raises an error and returns no graph.
C16_NoEdgeComponentFails ==
    ((Built \/ exception # "none")
     /\ raw.nodes # <<>>
     /\ \A c \in Largest(strongly_connected_components(raw)) : Cardinality(c) = 1)
    => (exception # "none" /\ ~Built)

\* The maximum speed of a street as downloaded, in km/h, as the fraction
\* <<sum of the values, number of values>>; 30 where there is none.
SpeedKmh(e) ==
    IF "maxspeed" \notin DOMAIN raw.edge[e] THEN <<30, 1>>
    ELSE IF ~raw.edge[e].maxspeed.list THEN raw.edge[e].maxspeed.v
    ELSE LET vs == raw.edge[e].maxspeed.v
         IN <<SumSeq([i \in 1..Len(vs) |-> vs[i][1]]), Len(vs)>>

\* C17: after set_default_itime every edge has itime = length / (v * 1000 /
\* 3600) seconds, v being its maximum speed in km/h, the mean of its maximum
\* speeds, or 30 without one: the itime in milliseconds is the integer
\* nearest to length * 3600 / v.  A street of 300 m without maximum speed
\* gets 36 s.
C17_DefaultItime ==
    /\ \A e \in DOMAIN graph.edge :
          "itime" \in DOMAIN graph.edge[e] =>
              LET v == SpeedKmh(e)
              IN 2 * Abs(graph.edge[e].itime * v[1] - raw.edge[e].length * 3600 * v[2]) <= v[1]
    /\ \A G \in {Digraph(<<1, 2>>, {<<2, 1>>})} :
          set_default_itime([G EXCEPT !.edge[<<2, 1>>].length = 300]).edge[<<2, 1>>].itime
              = 36 * Milli

\* A graph with a street without maximum speed, one with a single maximum
\* speed and one with several, after set_default_itime.
C17_Witness ==
    /\ Built
    /\ \A e \in DOMAIN graph.edge : "itime" \in DOMAIN graph.edge[e]
    /\ \E e \in DOMAIN graph.edge : "maxspeed" \notin DOMAIN raw.edge[e]
    /\ \E e \in DOMAIN graph.edge :
          "maxspeed" \in DOMAIN raw.edge[e] /\ ~raw.edge[e].maxspeed.list
    /\ \E e \in DOMAIN graph.edge :
          "maxspeed" \in DOMAIN raw.edge[e] /\ raw.edge[e].maxspeed.list

\* A dynamic igraph is cached: one has been built since the bot started.
Cached == "last_congestions_update" \in DOMAIN bot_data

\* The age of the dynamic igraph of the file: that of its congestions.
Age == now - file.datetime

\* The value build_dynamic_igraph returns for the static igraph and c.
OverlayOf(c) ==
    LET call == build_dynamic_igraph(heap, igraph, highway_paths, c)
    IN call.heap[call.ref]

C20_FailedDownloadPropagates ==
    [][(GetDynamicIgraph /\ returned'.download = "failed") =>
        /\ exception' # "none"
        /\ returned'.none
        /\ file' = file
        /\ bot_data' = bot_data]_vars

\* A download has failed when a dynamic igraph was cached and too old.
C20_Witness ==
    /\ returned.called /\ returned.download = "failed"
    /\ exception = "URLError"
    /\ Cached /\ file.exists /\ Age >= 5

\* C19: with calls of get_dynamic_igraph running at once, one building and
\* saving the dynamic igraph while another loads it, every call that loads
\* returns a whole dynamic igraph, the one saved before or the new one.
C19_ReaderGetsWholeSnapshot ==
    \A p \in Procs :
        (proc[p].returned.called /\ proc[p].returned.download = "none") =>
            /\ ~proc[p].returned.none
            /\ proc[p].returned.overlay.nodes = Static.nodes
            /\ DOMAIN proc[p].returned.overlay.edge = DOMAIN Static.edge

\* The bearing (turn) edges of an igraph: In -> Out.
TurnEdges(g) == {e \in DOMAIN g.edge : Kind(e[1]) = "I" /\ Kind(e[2]) = "O"}

\* C21: the bearing edges of the igraph are exactly the edges I_N_P -> O_N_S
\* for every node N, every predecessor P and every successor S of N, the
\* U-turn P = S among them; both ends of each are inodes of the metanode N
\* and its itime is bearing_itime(graph, P, N, S).
C21_BearingEdges ==
    /\ TurnEdges(Static) =
          {<<In(t[1][2], t[1][1]), Out(t[2][1], t[2][2])>> :
              t \in {u \in (DOMAIN graph.edge) \X (DOMAIN graph.edge) : u[1][2] = u[2][1]}}
    /\ \A e \in TurnEdges(Static) :
          /\ Static.node[e[1]].metanode = Static.node[e[2]].metanode
          /\ Static.edge[e].itime = bearing_itime(graph, e[1][3], e[1][2], e[2][3])

\* A followed path makes a U-turn at a node with two predecessors and two
\* successors, all of whose four turns are edges of the igraph.
C21_Witness ==
    /\ \E k \in 1..(Len(walk) - 1) :
          /\ Kind(walk[k]) = "I" /\ Kind(walk[k + 1]) = "O"
          /\ walk[k][3] = walk[k + 1][3]
          /\ Static.edge[<<walk[k], walk[k + 1]>>].itime > 0
          /\ Len(Predecessors(graph, walk[k][2])) = 2
          /\ Len(Successors(graph, walk[k][2])) = 2
          /\ Cardinality({e \in TurnEdges(Static) : e[1][2] = walk[k][2]}) = 4

\* C22: the street edges of the igraph are one to one with the edges of the
\* road graph: the edge M -> N gives the edge O_M_N -> I_N_M with its length
\* and its itime, and every edge from an Out to an In inode is that of one
\* edge of the road graph.
C22_StreetEdges ==
    /\ \A e \in DOMAIN graph.edge :
          /\ <<Out(e[1], e[2]), In(e[2], e[1])>> \in DOMAIN Static.edge
          /\ Static.edge[<<Out(e[1], e[2]), In(e[2], e[1])>>] =
                [itime |-> graph.edge[e].itime, length |-> graph.edge[e].length]
    /\ \A s \in StreetEdges(Static) :
          Cardinality({e \in DOMAIN graph.edge :
                          s = <<Out(e[1], e[2]), In(e[2], e[1])>>}) = 1
    /\ Cardinality(StreetEdges(Static)) = Cardinality(DOMAIN graph.edge)

\* A followed path passes a one-way street: the igraph has its street edge
\* and none for the way back.
C22_Witness ==
    \E k \in 1..(Len(walk) - 1) :
        /\ Kind(walk[k]) = "O" /\ Kind(walk[k + 1]) = "I"
        /\ <<walk[k][2], walk[k + 1][2]>> \in DOMAIN graph.edge
        /\ <<walk[k + 1][2], walk[k][2]>> \notin DOMAIN graph.edge
        /\ <<Out(walk[k + 1][2], walk[k][2]), In(walk[k][2], walk[k + 1][2])>>
              \notin DOMAIN Static.edge

\* C23: in the static igraph and in every graph build_dynamic_igraph makes
\* of it, no edge enters a Source inode and no edge leaves a Destination
\* inode.
C23_NoWayInOrOut ==
    \A r \in DOMAIN heap :
        \A e \in DOMAIN heap[r].edge : Kind(e[2]) # "S" /\ Kind(e[1]) # "D"

\* An overlay with a closed street has been built: it and the static igraph
\* have edges from Source inodes and edges to Destination inodes.
C23_Witness ==
    /\ dynamic # 0 /\ dynamic # igraph
    /\ \E e \in StreetEdges(heap[dynamic]) : heap[dynamic].edge[e].itime = Inf
    /\ \A r \in {igraph, dynamic} :
          /\ \E e \in DOMAIN heap[r].edge : Kind(e[1]) = "S"
          /\ \E e \in DOMAIN heap[r].edge : Kind(e[2]) = "D"

\* The angle of (-180, 180] that differs from the difference given by a multiple of 360.
HalfOpen(difference) ==
    LET m == (difference + FullTurn) % FullTurn
    IN IF m > HalfTurn THEN m - FullTurn ELSE m

\* C24: for bearings of [0, 360) the angle bearing_itime works with is the
\* difference outgoing - incoming brought into (-180, 180], so that a
\* difference of -180 costs what a turn of +180 costs.
C24_HalfOpenAngle ==
    turn.called =>
        LET angle == HalfOpen(turn.outgoing - turn.incoming)
        IN turn.itime = TimesFactor(BearingCost(Abs(angle)), SideFactor(angle))

\* The turn of the call made: outgoing - incoming in [-180, 180].
TurnAngle == NormalizedBearing(turn.outgoing - turn.incoming)

\* The cost in milliseconds of some right turns, from exp(m / 45) - 1 below
\* 50 degrees and ln((m - 45)^2) from 50 degrees on.
RightTurnCost ==
    (0 :> 0) @@ (15 :> 396) @@ (45 :> 1718) @@ (49 :> 1971) @@ (50 :> 3219)
    @@ (90 :> 7613) @@ (135 :> 9000) @@ (180 :> 9811)

\* C25: the side factor is 1.5 exactly when the normalized angle is under
\* -15 degrees and 1 otherwise: a left turn of more than 15 degrees costs
\* 1.5 times the right turn of the same size, any other turn what the right
\* turn of its size costs, which is exp(m / 45) - 1 under 50 degrees and
\* ln((m - 45)^2) from 50 degrees on; a turn of 0 degrees costs 0.
C25_SideFactor ==
    turn.called =>
        LET m == Abs(TurnAngle)
            right == bearing_itime(TurnGraph(0, m), 1, 2, 3)
        IN /\ TurnAngle < -15 => Abs(2 * turn.itime - 3 * right) <= 1
           /\ TurnAngle >= -15 => turn.itime = right
           /\ m \in DOMAIN RightTurnCost => right = RightTurnCost[m]
           /\ m < 50 => right = ExpMilli(m, 45) - Milli
           /\ m >= 50 => right = LnMilli((m - 45) * (m - 45))

\* A left turn of 90 degrees has cost 1.5 times 7.613 s.
C25_Witness ==
    /\ turn.called
    /\ TurnAngle = -90
    /\ turn.itime = 11420

\* C26: get_and_plot_path answers that the user is already there, and does
\* not call get_ipath, whenever the location and the destination of the user
\* resolve to the same node of the graph, equal coordinates or not.
C26_SameNodeShortCircuit ==
    [][(GetAndPlotPath /\ SameMetanode) =>
          (reply' = "already here" /\ ~route'.called)]_vars

\* The node of the road graph an inode of the static igraph belongs to.
Metanode(inode) == Static.node[inode].metanode

\* C27: when the road graph is strongly connected, the igraph has a path
\* from the Source inode of every node a to the Destination inode of every
\* other node b, and along every path of the igraph from a Source to a
\* Destination inode each edge either stays in its metanode or goes to the
\* metanode of a successor in the road graph: the metanodes form a walk of
\* the road graph from a to b.
C27_ReachabilityPreserved ==
    StronglyConnected(DOMAIN graph.edge) =>
        /\ \A a, b \in Range(graph.nodes) :
              a # b => Destination(b) \in ReachFrom(DOMAIN Static.edge, {Source(a)})
        /\ (Len(walk) >= 2 /\ Kind(walk[1]) = "S" /\ Kind(walk[Len(walk)]) = "D") =>
              /\ walk[1] = Source(Metanode(walk[1]))
              /\ walk[Len(walk)] = Destination(Metanode(walk[Len(walk)]))
              /\ \A k \in 1..(Len(walk) - 1) :
                    \/ Metanode(walk[k]) = Metanode(walk[k + 1])
                    \/ <<Metanode(walk[k]), Metanode(walk[k + 1])>> \in DOMAIN graph.edge

\* In a one-way ring a followed path goes from the Source inode of a node to
\* the Destination inode of the node before it, through the third node.
C27_Witness ==
    /\ Len(graph.nodes) = 3 /\ Cardinality(DOMAIN graph.edge) = 3
    /\ Len(walk) >= 2 /\ Kind(walk[1]) = "S" /\ Kind(walk[Len(walk)]) = "D"
    /\ <<Metanode(walk[Len(walk)]), Metanode(walk[1])>> \in DOMAIN graph.edge
    /\ StreetCount(walk) = 2

C29_Idempotent ==
    [][SetDefaultItimeAgain =>
          \A e \in DOMAIN graph.edge : graph'.edge[e].itime = graph.edge[e].itime]_vars

\* Every way ID with a highway path has congestions.
AllCovered == Range(highway_paths.order) \subseteq DOMAIN congestions

\* The congestions of the way IDs that have a highway path.
Matched == [w \in DOMAIN congestions \cap Range(highway_paths.order) |-> congestions[w]]

\* C30: when every way ID of highway_paths has congestions,
\* build_dynamic_igraph returns an overlay, the one it returns for the
\* congestions of those way IDs alone (the other entries are ignored); when
\* a way ID of highway_paths has none it raises and returns no graph.  In
\* both cases the static igraph is as it was built.
C30_MissingCongestionRaises ==
    (dynamic # 0 \/ exception # "none") =>
        /\ AllCovered =>
              /\ dynamic # 0 /\ exception = "none"
              /\ heap[dynamic] = OverlayOf(Matched)
              /\ DOMAIN heap = {igraph, dynamic}
        /\ ~AllCovered =>
              /\ dynamic = 0 /\ exception = "KeyError"
              /\ DOMAIN heap = {igraph}
        /\ Static = build_igraph_with_bearings(graph)

\* The call has raised for want of the congestions of way 2, after it had
\* put the closed state of way 1 on a street of its copy, with congestions
\* for a way that has no highway path.
C30_Witness ==
    /\ exception = "KeyError" /\ dynamic = 0
    /\ highway_paths.order = <<1, 2>>
    /\ Len(highway_paths.path[1]) = 2
    /\ DOMAIN congestions = {1, 3}
    /\ congestions[1].current_state = Closed
    /\ \A e \in StreetEdges(Static) : Static.edge[e].itime # Inf

====
